---- MODULE Spec2Model ----
(***************************************************************************)
(* Model of the four variants of the Cursor identifier-reset tool:         *)
(*   variant 1 = src/cpp/ctbpR.cpp     variant 2 = src/cpp/ctbpR-2.cpp     *)
(*   variant 3 = src/cpp/ctbpR-3.cpp   variant 4 = src/cpp/ctbpR-4.cpp     *)
(* A run is the linear pipeline main -> reset routine: locate the storage  *)
(* file, create its directories, back it up, load it, generate new ids,    *)
(* mutate the document, open and write the file, report, exit.             *)
(* The generators build their output as a sequence of characters; the run  *)
(* holds it as a string.  A file's content is the JSON value its text       *)
(* denotes (k = "json"), or a marker for text that is not JSON ("corrupt": *)
(* invalid text, "empty": truncated to nothing, "partial": a prefix of a   *)
(* document) or for no file at all ("absent").                             *)
(***************************************************************************)
EXTENDS Integers, Sequences, FiniteSets, TLC

VARIABLES
    variant,        \* which source file is the program: 1..4
    platform,       \* the #ifdef branch compiled in
    envSet,         \* whether APPDATA (Windows) / HOME (others) is set
    pc,             \* position of the run
    storagePath,    \* "unset" | "ok" | "empty": value of storage_file
    storage,        \* content of the file at the resolved storage path
    backup,         \* content of the file at <storage>.backup_<timestamp>
    backupMade,     \* backup_path non-empty (variant 1) / copy completed
    data,           \* the in-memory json document
    ids,            \* the generated identifiers
    out,            \* what was printed: stderr / warning / success / ids
    exitCode,       \* exit status: -1 while running, 139 when killed
    hist,           \* history of the run: pre-run contents, faults met
    gen             \* state of a stand-alone call of an identifier generator

vars == <<variant, platform, envSet, pc, storagePath, storage, backup,
          backupMade, data, ids, out, exitCode, hist, gen>>

runVars == <<variant, platform, envSet, pc, storagePath, storage, backup,
             backupMade, data, ids, out, exitCode, hist>>

Variants == 1 .. 4

(***************************************************************************)
(* Bounds of the model.                                                    *)
(***************************************************************************)
\* longest length given to a stand-alone call of the random-hex generator
MaxLen == 3
\* seeds of the random engine tried for each generator call of a run: 0..MaxSeed
MaxSeed == 1

(***************************************************************************)
(* Output formatting of the identifier generators.                         *)
(***************************************************************************)
HexDigits == <<"0", "1", "2", "3", "4", "5", "6", "7",
               "8", "9", "a", "b", "c", "d", "e", "f">>

HexChars == { HexDigits[i] : i \in 1 .. 16 }

\* operator<<(int) under std::hex: lowercase hex digits, no leading zeros
RECURSIVE ToHex(_)
ToHex(n) == IF n < 16 THEN << HexDigits[n + 1] >>
            ELSE ToHex(n \div 16) \o << HexDigits[(n % 16) + 1] >>

\* std::setw(w) with std::setfill('0'): pad on the left up to width w
RECURSIVE PadLeft(_, _)
PadLeft(s, w) == IF Len(s) >= w THEN s ELSE PadLeft(<<"0">> \o s, w)

\* one loop iteration of the random-hex generator: what is appended for a draw
HexPiece(v, d) ==
    CASE v = 1 -> PadLeft(ToHex(d), 2)      \* ss << std::setw(2) << dis(gen)
      [] v = 2 -> ToHex(d)                  \* ss << std::hex << (rand() % 256)
      [] OTHER -> ToHex(d)                  \* ss << std::hex << dis(gen)

\* the random-hex generator of variant v on the draws of its random source,
\* one draw per loop iteration (Len(draws) is the length argument)
RECURSIVE RandomHex(_, _)
RandomHex(v, draws) ==
    IF draws = <<>> THEN <<>>
    ELSE HexPiece(v, Head(draws)) \o RandomHex(v, Tail(draws))

\* values one draw of the random-hex generator can take
HexDrawRange(v) == IF v = 2 THEN 0 .. 255 ELSE 0 .. 15

\* bytes tried for rand() % 256 when the call draws more than one
ByteSamples == {0, 9, 10, 15, 16, 127, 160, 255}

(***************************************************************************)
(* The random source.  Every generator call of variants 1, 3 and 4 builds  *)
(* its own engine; the draws of an engine are a stream fixed by its seed.  *)
(***************************************************************************)
\* n draws, uniform over lo .. lo + size - 1, of the engine started at a with
\* stride b
Stream(a, b, n, lo, size) == [ i \in 1 .. n |-> lo + ((a + (i - 1) * b) % size) ]

\* the engine a run obtains from seed s
EngineDraws(s, n, lo, size) == Stream(7 * s + 5, 2 * s + 3, n, lo, size)

\* hex text of the draws r[from] .. r[from + n - 1], each written with
\* operator<<(int) under std::hex
RECURSIVE HexGroup(_, _, _)
HexGroup(r, from, n) ==
    IF n = 0 THEN <<>> ELSE ToHex(r[from]) \o HexGroup(r, from + 1, n - 1)

\* "%02x" of the bytes b[from] .. b[from + n - 1] (uuid_unparse)
RECURSIVE ByteGroup(_, _, _)
ByteGroup(b, from, n) ==
    IF n = 0 THEN <<>>
    ELSE PadLeft(ToHex(b[from]), 2) \o ByteGroup(b, from + 1, n - 1)

\* variants 1 and 4: 8 draws, "-", 4 draws, "-4", 3 draws, "-", one draw of
\* 8..11 (r[16]), 3 draws, "-", 12 draws
UUID_fixed(r) ==
    HexGroup(r, 1, 8) \o <<"-">> \o HexGroup(r, 9, 4) \o <<"-", "4">> \o
    HexGroup(r, 13, 3) \o <<"-">> \o ToHex(r[16]) \o HexGroup(r, 17, 3) \o
    <<"-">> \o HexGroup(r, 20, 12)

\* variant 3: groups of 8, 4, 4, 4, 12 draws joined by "-"
UUID_plain(r) ==
    HexGroup(r, 1, 8) \o <<"-">> \o HexGroup(r, 9, 4) \o <<"-">> \o
    HexGroup(r, 13, 4) \o <<"-">> \o HexGroup(r, 17, 4) \o <<"-">> \o
    HexGroup(r, 21, 12)

\* variant 2: uuid_generate_random sets the version and variant bits of 16
\* random bytes, uuid_unparse prints them as 4-2-2-2-6 bytes
UUID_lib(b) ==
    LET u == [ i \in 1 .. 16 |->
                 CASE i = 7 -> 64 + (b[i] % 16)
                   [] i = 9 -> 128 + (b[i] % 64)
                   [] OTHER -> b[i] ]
    IN  ByteGroup(u, 1, 4) \o <<"-">> \o ByteGroup(u, 5, 2) \o <<"-">> \o
        ByteGroup(u, 7, 2) \o <<"-">> \o ByteGroup(u, 9, 2) \o <<"-">> \o
        ByteGroup(u, 11, 6)

\* the UUID generator of variant v on the draws r of its random source
UUID(v, r) == CASE v = 2 -> UUID_lib(r)
                [] v = 3 -> UUID_plain(r)
                [] OTHER -> UUID_fixed(r)

\* the draws of one UUID call: stream (a, b); c is the draw of 8..11
UUIDStream(v, a, b, c) ==
    CASE v = 2 -> Stream(a, b, 16, 0, 256)
      [] v = 3 -> Stream(a, b, 32, 0, 16)
      [] OTHER -> [ i \in 1 .. 31 |->
                      IF i = 16 THEN c ELSE Stream(a, b, 31, 0, 16)[i] ]

(***************************************************************************)
(* Stand-alone calls of the identifier generators (specification SpecGen). *)
(***************************************************************************)
GenIdle == [ op |-> "idle", v |-> 0, draws |-> <<>>, result |-> <<>>, done |-> FALSE ]

HexDrawSet(v, L) == IF v = 2 /\ L > 1 THEN ByteSamples ELSE HexDrawRange(v)

\* a call of the random-hex generator of variant v whose source yields draws d
HexCall(v, d) ==
    [ op |-> "hex", v |-> v, draws |-> d, result |-> <<>>, done |-> FALSE ]

\* a call of the UUID generator of variant v on the stream (a, b), c
UUIDCall(v, a, b, c) ==
    [ op |-> "uuid", v |-> v, draws |-> UUIDStream(v, a, b, c),
      result |-> <<>>, done |-> FALSE ]

\* generateRandomHex / generate_random_hex(length), length = Len(gen.draws)
CallRandomHex ==
    /\ gen.op = "hex" /\ ~gen.done
    /\ gen' = [ gen EXCEPT !.result = RandomHex(gen.v, gen.draws), !.done = TRUE ]
    /\ UNCHANGED runVars

\* generateUUID / generate_uuid()
CallUUID ==
    /\ gen.op = "uuid" /\ ~gen.done
    /\ gen' = [ gen EXCEPT !.result = UUID(gen.v, gen.draws), !.done = TRUE ]
    /\ UNCHANGED runVars

(***************************************************************************)
(* JSON values (nlohmann::json).  A document is [t, m]: its type and, for  *)
(* an object, its members.  A member is [t, s, o]: its type, its text when *)
(* a string or a number, its members (strings) when an object.             *)
(***************************************************************************)
NoMembers == [ k \in {} |-> "" ]

JNull == [ t |-> "null", m |-> NoMembers ]              \* json data;
JObject == [ t |-> "object", m |-> NoMembers ]          \* json::object()
JArray == [ t |-> "array", m |-> NoMembers ]

StrVal(s) == [ t |-> "str", s |-> s, o |-> NoMembers ]
NumVal(s) == [ t |-> "num", s |-> s, o |-> NoMembers ]
ObjVal(o) == [ t |-> "object", s |-> "", o |-> o ]

\* the identifier fields, in the order machine id, secondary machine id, device id
FlatKeys == << "telemetry.machineId", "telemetry.macMachineId", "telemetry.devDeviceId" >>
SubKeys == << "machineId", "macMachineId", "devDeviceId" >>
TrialKeys == { "cursor.trialStartDate", "cursor.trialReminderShown", "cursor.trialExpired" }

\* basic_json::contains(key)
Contains(j, k) == j.t = "object" /\ k \in DOMAIN j.m

\* basic_json::operator[](key) throws type_error 305 unless null or object
IndexThrows(t) == t \notin { "null", "object" }

\* j[k] = val on a null or object document: every other member is kept
SetKey_dropsOthers(j, k, val) == [ t |-> "object", m |-> [ x \in {k} |-> val ] ]
SetKey(j, k, val) ==
    [ t |-> "object",
      m |-> [ x \in (DOMAIN j.m) \cup {k} |-> IF x = k THEN val ELSE j.m[x] ] ]

\* val[k] = s on a null or object member
SetSub(val, k, s) ==
    ObjVal([ x \in (DOMAIN val.o) \cup {k} |-> IF x = k THEN s ELSE val.o[x] ])

\* basic_json::erase(key) on an object, for each key of ks
EraseKeys(j, ks) == [ t |-> "object", m |-> [ x \in (DOMAIN j.m) \ ks |-> j.m[x] ] ]

\* basic_json::value(key, "Not set") returning std::string: type_error 306
\* unless an object, type_error 302 when the member is not a string
ValueThrows(j, k) == j.t # "object" \/ (k \in DOMAIN j.m /\ j.m[k].t # "str")

NoIds == << "", "", "" >>

\* flat convention: data["telemetry.<field>"] = id, for the three fields
RECURSIVE SetFlat(_, _, _)
SetFlat(j, idv, i) ==
    IF i > 3 THEN j ELSE SetFlat(SetKey(j, FlatKeys[i], StrVal(idv[i])), idv, i + 1)

\* nested convention: data["telemetry"]["<field>"] = id, for the three fields
RECURSIVE SetNested(_, _, _)
SetNested(j, idv, i) ==
    IF i > 3 THEN j
    ELSE SetNested(SetKey(j, "telemetry", SetSub(j.m["telemetry"], SubKeys[i], idv[i])),
                   idv, i + 1)

\* the keys variant v erases after setting the identifiers
ErasedKeys(v) == IF v = 2 THEN TrialKeys ELSE {}

\* whether the update of the document throws json::type_error
MutateThrows(v, j) ==
    CASE v = 1 -> \/ IndexThrows(j.t)
                  \/ (Contains(j, "telemetry") /\ IndexThrows(j.m["telemetry"].t))
      [] v = 2 -> \E i \in 1 .. 3 : ValueThrows(j, FlatKeys[i])
      [] OTHER -> IndexThrows(j.t)

\* the document after the update with the identifiers idv
Mutate(v, j, idv) ==
    CASE v = 1 ->
           SetNested(IF Contains(j, "telemetry") THEN j
                     ELSE SetKey(j, "telemetry", ObjVal(NoMembers)), idv, 1)
      [] OTHER -> EraseKeys(SetFlat(j, idv, 1), ErasedKeys(v))

(***************************************************************************)
(* Files.                                                                  *)
(***************************************************************************)
Absent == [ k |-> "absent", d |-> JNull ]
Corrupt == [ k |-> "corrupt", d |-> JNull ]
Truncated == [ k |-> "empty", d |-> JNull ]
Partial == [ k |-> "partial", d |-> JNull ]
JsonFile(j) == [ k |-> "json", d |-> j ]

Members(keys, f(_)) == [ t |-> "object", m |-> [ k \in keys |-> f(k) ] ]

\* documents a storage file can hold before the run
DocFlat == Members({ "a", "telemetry.machineId" },
              LAMBDA k : IF k = "a" THEN NumVal("1") ELSE StrVal("old"))
DocTrial == Members({ "a", "cursor.trialStartDate", "telemetry.machineId" },
              LAMBDA k : IF k = "a" THEN NumVal("1") ELSE StrVal("old"))
DocNested == Members({ "a", "telemetry" },
              LAMBDA k : IF k = "a" THEN NumVal("1")
                         ELSE ObjVal([ x \in { "machineId", "other" } |-> "old" ]))
DocScalarTelemetry == Members({ "telemetry" }, LAMBDA k : StrVal("x"))
DocNumericId == Members({ "a", "telemetry.machineId" }, LAMBDA k : NumVal("1"))

InitialDocs == { DocFlat, DocTrial, DocNested, DocScalarTelemetry, DocNumericId,
                 JObject, JArray }

InitialFiles == { Absent, Corrupt } \cup { JsonFile(j) : j \in InitialDocs }

\* a backup left at the same path by an earlier run within the same second
OlderBackup == JsonFile(Members({ "a" }, LAMBDA k : NumVal("0")))

(***************************************************************************)
(* The run.                                                                *)
(***************************************************************************)
Platforms == { "Windows", "Darwin", "Linux", "Other" }

NoOutput == [ err |-> FALSE, warn |-> FALSE, success |-> FALSE, ids |-> NoIds ]

\* hist: storage0/backup0 the contents before the run; faults the injected
\* failures met; opened: the storage file was opened for writing; wrote: the
\* document was written completely; thrown: the exception that ended the run
NoHistory(f, b) ==
    [ storage0 |-> f, backup0 |-> b, faults |-> {}, opened |-> FALSE,
      wrote |-> FALSE, backupTried |-> FALSE, thrown |-> "none" ]

\* variant 1 does not compile on a platform outside its three #ifdef branches
\* (the throw-expression initialises a std::string)
Builds(v, plat) == v = 1 => plat # "Other"

InitRun ==
    /\ variant \in Variants
    /\ platform \in Platforms
    /\ Builds(variant, platform)
    /\ envSet \in BOOLEAN
    /\ pc = "start"
    /\ storagePath = "unset"
    /\ storage \in InitialFiles
    /\ backup \in { Absent, OlderBackup }
    /\ backupMade = FALSE
    /\ data = JNull
    /\ ids = NoIds
    /\ out = NoOutput
    /\ exitCode = -1
    /\ hist = NoHistory(storage, backup)

\* exit status of main after the reset routine ended by an exception:
\* variants 1 and 4 return 1 from main's catch, variants 2 and 3 swallow the
\* exception in the routine and main returns 0
ExitOnError(v) == IF v \in {1, 4} THEN 1 ELSE 0

\* an exception of the given kind leaves the routine: every variant's handler
\* prints it on standard error, then main returns
Throw(kind, h) ==
    /\ pc' = "done"
    /\ out' = [ out EXCEPT !.err = TRUE ]
    /\ exitCode' = ExitOnError(variant)
    /\ hist' = [ h EXCEPT !.thrown = kind ]

\* the process is killed (undefined behaviour): nothing is printed
Crash(h) ==
    /\ pc' = "done"
    /\ out' = out
    /\ exitCode' = 139
    /\ hist' = [ h EXCEPT !.thrown = "crash" ]

Fault(h, f) == [ h EXCEPT !.faults = @ \cup {f} ]

\* fs::path(getenv(...)) with the variable unset constructs a path from a null
\* pointer: undefined behaviour, the build may crash, throw or yield any path
UBOutcomes == { "crash", "throw_ub", "empty" }

\* outcomes of getStorageFile / get_storage_file
LocateOutcomes(v, plat, env) ==
    CASE plat = "Other" -> { "throw_platform" }
      [] env -> { "ok" }
      [] v = 1 -> UBOutcomes
      [] v = 2 -> IF plat = "Windows" THEN { "empty" } ELSE UBOutcomes
      [] v = 3 -> IF plat = "Windows" THEN { "throw_location" } ELSE UBOutcomes
      [] OTHER -> { "empty" }

Locate ==
    /\ pc = "start"
    /\ \E o \in LocateOutcomes(variant, platform, envSet) :
         CASE o \in { "ok", "empty" } ->
                /\ storagePath' = o
                /\ pc' = "mkdir"
                /\ UNCHANGED << out, exitCode, hist >>
           [] o = "crash" -> Crash(hist) /\ UNCHANGED storagePath
           [] OTHER -> Throw(o, hist) /\ UNCHANGED storagePath
    /\ UNCHANGED << variant, platform, envSet, storage, backup, backupMade, data, ids, gen >>

\* fs::create_directories(storage_file.parent_path()): throws filesystem_error
\* on failure; on the empty path the outcome depends on the library
CreateDirectories ==
    /\ pc = "mkdir"
    /\ \E fails \in BOOLEAN :
         IF fails
         THEN Throw("fs", Fault(hist, "mkdir"))
         ELSE /\ pc' = "backup"
              /\ UNCHANGED << out, exitCode, hist >>
    /\ UNCHANGED << variant, platform, envSet, storagePath, storage, backup,
                    backupMade, data, ids, gen >>

\* fs::exists(storage_file)
Exists == storagePath = "ok" /\ storage.k # "absent"

\* copy_file / copy without an overwrite option reports an error when the
\* destination exists; variants 2 and 4 pass overwrite_if_exists / overwrite_existing
CopyRefused(v, destExists) == destExists /\ v \notin {2, 4}

\* the copy functions are called without an error_code: a failure throws
CopyThrows_ignored(v) == FALSE
CopyThrows(v) == TRUE

\* backupFile / backup_file
Backup ==
    /\ pc = "backup"
    /\ IF ~Exists
       THEN /\ pc' = "load"
            /\ UNCHANGED << backup, backupMade, out, exitCode, hist >>
       ELSE LET h == [ hist EXCEPT !.backupTried = TRUE ]
            IN  IF CopyRefused(variant, backup.k # "absent")
                THEN /\ Throw("backup", h)
                     /\ UNCHANGED << backup, backupMade >>
                ELSE \E fails \in BOOLEAN :
                       IF fails
                       THEN \E left \in { backup, Partial } :
                              /\ backup' = left
                              /\ UNCHANGED backupMade
                              /\ IF CopyThrows(variant)
                                 THEN Throw("backup", Fault(h, "copy"))
                                 ELSE /\ pc' = "load"
                                      /\ hist' = Fault(h, "copy")
                                      /\ UNCHANGED << out, exitCode >>
                       ELSE /\ backup' = storage
                            /\ backupMade' = TRUE
                            /\ pc' = "load"
                            /\ hist' = h
                            /\ UNCHANGED << out, exitCode >>
    /\ UNCHANGED << variant, platform, envSet, storagePath, storage, data, ids, gen >>

\* whether the variant checks the input stream before parsing
ChecksInputOpen(v) == v # 2

\* whether the variant catches json::parse_error and starts from an empty object
CatchesParseError(v) == v = 3

\* the load step: if (fs::exists(...)) { std::ifstream in(...); in >> data; }
Load ==
    /\ pc = "load"
    /\ IF ~Exists
       THEN /\ pc' = "gen"
            /\ UNCHANGED << data, out, exitCode, hist >>
       ELSE \E fails \in BOOLEAN :
              LET h == IF fails THEN Fault(hist, "openread") ELSE hist
                  parses == ~fails /\ storage.k = "json"
              IN  CASE fails /\ ChecksInputOpen(variant) ->
                         /\ pc' = "gen" /\ hist' = h
                         /\ UNCHANGED << data, out, exitCode >>
                    [] parses ->
                         /\ data' = storage.d
                         /\ pc' = "gen" /\ hist' = h
                         /\ UNCHANGED << out, exitCode >>
                    [] OTHER ->
                         IF CatchesParseError(variant)
                         THEN /\ data' = JObject
                              /\ out' = [ out EXCEPT !.warn = TRUE ]
                              /\ pc' = "gen" /\ hist' = h
                              /\ UNCHANGED exitCode
                         ELSE Throw("parse", h) /\ UNCHANGED data
    /\ UNCHANGED << variant, platform, envSet, storagePath, storage, backup,
                    backupMade, ids, gen >>

\* ss.str(): the characters written to the stringstream, as one string
RECURSIVE Text(_)
Text(s) == IF s = <<>> THEN "" ELSE Head(s) \o Text(Tail(s))

\* length argument of the two random-hex calls of the run
IdLength(v) == IF v = 4 THEN 64 ELSE 32

Seeds == 0 .. MaxSeed

\* the three identifiers of a run whose generator calls got seeds s1, s2, s3
NewIds(v, s1, s2, s3) ==
    << Text(RandomHex(v, EngineDraws(s1, IdLength(v), 0, IF v = 2 THEN 256 ELSE 16))),
       Text(RandomHex(v, EngineDraws(s2, IdLength(v), 0, IF v = 2 THEN 256 ELSE 16))),
       Text(UUID(v, UUIDStream(v, 7 * s3 + 5, 2 * s3 + 3, 8 + (s3 % 4)))) >>

\* generateNewIds / the three generator calls of the reset routine
Generate ==
    /\ pc = "gen"
    /\ \E s1 \in Seeds, s2 \in Seeds, s3 \in Seeds :
         ids' = NewIds(variant, s1, s2, s3)
    /\ pc' = "mutate"
    /\ UNCHANGED << variant, platform, envSet, storagePath, storage, backup,
                    backupMade, data, out, exitCode, hist, gen >>

\* the update of the in-memory document
Update ==
    /\ pc = "mutate"
    /\ IF MutateThrows(variant, data)
       THEN Throw("type", hist) /\ UNCHANGED data
       ELSE /\ data' = Mutate(variant, data, ids)
            /\ pc' = "open"
            /\ UNCHANGED << out, exitCode, hist >>
    /\ UNCHANGED << variant, platform, envSet, storagePath, storage, backup,
                    backupMade, ids, gen >>

\* whether the variant tests out_file.is_open() before writing
ChecksOutputOpen(v) == v \in {1, 4}

\* std::ofstream out_file(storage_file): on success the file is created or
\* truncated, on failure it is left as it is
OpenForWriting ==
    /\ pc = "open"
    /\ \E fails \in { storagePath # "ok" } \cup { TRUE } :
         IF ~fails
         THEN /\ storage' = Truncated
              /\ hist' = [ hist EXCEPT !.opened = TRUE ]
              /\ pc' = "write"
              /\ UNCHANGED << out, exitCode >>
         ELSE LET h == Fault(hist, "open")
              IN  IF ChecksOutputOpen(variant)
                  THEN \* variant 1 first copies the backup back, without an
                       \* overwrite option: refused while the file exists
                       /\ storage' = IF variant = 1 /\ backupMade
                                        /\ ~CopyRefused(variant, Exists)
                                     THEN backup ELSE storage
                       /\ Throw(IF variant = 1 /\ backupMade
                                   /\ CopyRefused(variant, Exists)
                                THEN "fs" ELSE "write", h)
                  ELSE /\ pc' = "write"
                       /\ hist' = h
                       /\ UNCHANGED << storage, out, exitCode >>
    /\ UNCHANGED << variant, platform, envSet, storagePath, backup, backupMade,
                    data, ids, gen >>

\* out_file << data: no variant tests the stream afterwards; a failed write
\* leaves the truncated file or a prefix of the text
WriteFile ==
    /\ pc = "write"
    /\ IF ~hist.opened
       THEN UNCHANGED << storage, hist >>
       ELSE \E fails \in BOOLEAN :
              IF fails
              THEN /\ storage' \in { Truncated, Partial }
                   /\ hist' = Fault(hist, "write")
              ELSE /\ storage' = JsonFile(data)
                   /\ hist' = [ hist EXCEPT !.wrote = TRUE ]
    /\ pc' = "report"
    /\ UNCHANGED << variant, platform, envSet, storagePath, backup, backupMade,
                    data, ids, out, exitCode, gen >>

\* the success message with the new identifiers, then main returns 0
Report ==
    /\ pc = "report"
    /\ out' = [ out EXCEPT !.success = TRUE, !.ids = ids ]
    /\ exitCode' = 0
    /\ pc' = "done"
    /\ UNCHANGED << variant, platform, envSet, storagePath, storage, backup,
                    backupMade, data, ids, hist, gen >>

Init == InitRun /\ gen = GenIdle

Next == \/ Locate
        \/ CreateDirectories
        \/ Backup
        \/ Load
        \/ Generate
        \/ Update
        \/ OpenForWriting
        \/ WriteFile
        \/ Report

Spec == Init /\ [][Next]_vars

\* stand-alone generator calls: the run does not move
InitGen ==
    /\ \/ \E v \in Variants, L \in 0 .. MaxLen :
            \E d \in [ 1 .. L -> HexDrawSet(v, L) ] : gen = HexCall(v, d)
       \/ \E v \in Variants, a \in 0 .. 255, b \in 0 .. 15, c \in 8 .. 11 :
            /\ v # 2 => a < 16
            /\ v \in {2, 3} => c = 8
            /\ gen = UUIDCall(v, a, b, c)
    /\ variant = gen.v
    /\ platform = "Linux"
    /\ envSet = TRUE
    /\ pc = "idle"
    /\ storagePath = "unset"
    /\ storage = Absent
    /\ backup = Absent
    /\ backupMade = FALSE
    /\ data = JNull
    /\ ids = NoIds
    /\ out = NoOutput
    /\ exitCode = -1
    /\ hist = NoHistory(Absent, Absent)

NextGen == CallRandomHex \/ CallUUID

SpecGen == InitGen /\ [][NextGen]_vars

(***************************************************************************)
(* Properties.                                                             *)
(***************************************************************************)
ExistedAtStart == hist.storage0.k # "absent"

PersistFailed == hist.faults \cap { "open", "write" } # {}

\* the identifier values a document holds, in the variant's key convention
StoredIds(v, j) ==
    IF v = 1
    THEN [ i \in 1 .. 3 |->
             IF Contains(j, "telemetry") /\ SubKeys[i] \in DOMAIN j.m["telemetry"].o
             THEN j.m["telemetry"].o[SubKeys[i]] ELSE "" ]
    ELSE [ i \in 1 .. 3 |->
             IF Contains(j, FlatKeys[i]) THEN j.m[FlatKeys[i]].s ELSE "" ]

IdKeySet == { FlatKeys[i] : i \in 1 .. 3 }
SubKeySet == { SubKeys[i] : i \in 1 .. 3 }

\* every key of d0 outside the identifier fields and `erased` is in d1 with
\* the same value, and d1 has no key that is neither in d0 nor an identifier
\* field (nested convention: the same inside the "telemetry" object)
Preserved(v, d0, d1, erased) ==
    IF v = 1
    THEN /\ \A k \in (DOMAIN d0.m) \ ({"telemetry"} \cup erased) :
              k \in DOMAIN d1.m /\ d1.m[k] = d0.m[k]
         /\ (DOMAIN d1.m) \subseteq (DOMAIN d0.m) \cup {"telemetry"}
         /\ "telemetry" \in DOMAIN d0.m =>
              /\ "telemetry" \in DOMAIN d1.m
              /\ \A x \in (DOMAIN d0.m["telemetry"].o) \ SubKeySet :
                   /\ x \in DOMAIN d1.m["telemetry"].o
                   /\ d1.m["telemetry"].o[x] = d0.m["telemetry"].o[x]
              /\ (DOMAIN d1.m["telemetry"].o) \subseteq
                     (DOMAIN d0.m["telemetry"].o) \cup SubKeySet
    ELSE /\ \A k \in (DOMAIN d0.m) \ (IdKeySet \cup erased) :
              k \in DOMAIN d1.m /\ d1.m[k] = d0.m[k]
         /\ (DOMAIN d1.m) \subseteq (DOMAIN d0.m) \cup IdKeySet

\* a run that read a storage file holding a JSON object and reported success
\* after a completed write
SucceededOnObject ==
    /\ pc = "done" /\ exitCode = 0 /\ out.success /\ hist.wrote
    /\ hist.storage0.k = "json" /\ hist.storage0.d.t = "object"
    /\ "openread" \notin hist.faults

\* C1: in variant 1 (ctbpR.cpp), a run on an existing valid storage file in
\* which opening the file for writing or the write itself fails ends with the
\* file holding its pre-run content and with an error reported, not success.
C1_WriteFailureRollback ==
    (variant = 1 /\ pc = "done" /\ hist.storage0.k = "json" /\ PersistFailed) =>
        /\ storage = hist.storage0
        /\ out.err /\ ~out.success /\ exitCode # 0

\* C2: when the storage file existed at the start, it is opened for writing
\* only after the backup completed and a backup file holding the pre-run
\* content exists; if the backup copy fails the run aborts with an error and
\* the storage file keeps its pre-run content.
C2_BackupBeforeWrite ==
    ExistedAtStart =>
        /\ hist.opened => (backupMade /\ backup = hist.storage0)
        /\ ("copy" \in hist.faults \/ hist.thrown = "backup") =>
              /\ pc = "done" /\ out.err /\ ~out.success
              /\ ~hist.opened /\ storage = hist.storage0

\* C2 witness: the file existed and has just been opened for writing
C2_Witness ==
    /\ pc = "write" /\ hist.opened /\ hist.storage0 = JsonFile(DocFlat)
    /\ backup = JsonFile(DocFlat) /\ storage = Truncated

\* C3 as stated: after a successful run on a file holding a JSON object, every
\* key other than the three identifier fields is present with its pre-run
\* value and no other key was added.
C3_AllOtherKeysPreserved ==
    SucceededOnObject => Preserved(variant, hist.storage0.d, storage.d, {})

\* C3 amended: the same, except that variant 2 (ctbpR-2.cpp) also removes the
\* three keys cursor.trialStartDate, cursor.trialReminderShown and
\* cursor.trialExpired.
C3_OtherKeysPreservedExceptErased ==
    SucceededOnObject =>
        Preserved(variant, hist.storage0.d, storage.d, ErasedKeys(variant))

\* C3 witness: variant 2 succeeded on a document holding an ordinary key, an
\* old identifier and a trial key
C3_Witness ==
    /\ SucceededOnObject /\ variant = 2 /\ hist.storage0 = JsonFile(DocTrial)
    /\ "a" \in DOMAIN storage.d.m /\ "cursor.trialStartDate" \notin DOMAIN storage.d.m

\* C4: if a file already exists at the backup path of this run, the backup
\* step fails with a backup error, the earlier backup is unchanged and the run
\* aborts before the storage file is modified.
C4_BackupNeverOverwritten ==
    (hist.backupTried /\ hist.backup0.k # "absent") =>
        /\ pc = "done" /\ hist.thrown = "backup" /\ out.err
        /\ backup = hist.backup0
        /\ storage = hist.storage0

\* C5: when the storage file holds text that is not valid JSON (and nothing
\* else fails), the run warns, exits with success and leaves a JSON file that
\* holds exactly the three identifier fields.
C5_CorruptedFileRecovered ==
    (/\ pc = "done" /\ hist.storage0.k = "corrupt" /\ storagePath = "ok"
     /\ hist.backup0.k = "absent" /\ hist.faults = {}) =>
        /\ out.warn /\ out.success /\ exitCode = 0
        /\ storage.k = "json"
        /\ storage.d = Mutate(variant, JObject, ids)

\* C6: a run ended by a location, platform, backup or write error prints an
\* error on standard error and exits non-zero; exit status 0 is returned only
\* by runs that persisted the new identifiers.
C6_FatalErrorsExitNonZero ==
    pc = "done" =>
        /\ hist.thrown \in { "throw_location", "throw_platform", "backup", "write" } =>
              (out.err /\ exitCode # 0)
        /\ exitCode = 0 =>
              (hist.wrote /\ storage.k = "json" /\ StoredIds(variant, storage.d) = ids)

\* C7: on Windows with APPDATA unset the locator fails with a location error
\* and returns no path, so the directory-creation, backup and write steps are
\* never reached.
C7_LocatorFailsWithoutAppData ==
    (platform = "Windows" /\ ~envSet /\ pc # "start") =>
        /\ pc = "done" /\ hist.thrown = "throw_location"
        /\ storagePath = "unset" /\ out.err

\* C8: for every length L and every outcome of the random source, the
\* random-hex generator returns exactly L characters, each one of 0-9a-f.
C8_RandomHexExactLength ==
    (gen.op = "hex" /\ gen.done) =>
        /\ Len(gen.result) = Len(gen.draws)
        /\ \A i \in 1 .. Len(gen.result) : gen.result[i] \in HexChars

\* 8-4-4-4-12 lowercase hex with version digit 4 and variant digit 8, 9, a or b
IsUUIDv4(u) ==
    /\ Len(u) = 36
    /\ \A i \in 1 .. 36 :
         IF i \in {9, 14, 19, 24} THEN u[i] = "-" ELSE u[i] \in HexChars
    /\ u[15] = "4"
    /\ u[20] \in { "8", "9", "a", "b" }

\* C9: for every outcome of the random source the UUID generator returns a
\* 36-character 8-4-4-4-12 lowercase hex string whose third group starts with
\* 4 and whose fourth group starts with 8, 9, a or b.
C9_UUIDIsVersion4 ==
    (gen.op = "uuid" /\ gen.done) => IsUUIDv4(gen.result)

\* C10: whenever a run has printed its success message and the new
\* identifiers, the storage file holds a complete document whose identifier
\* fields equal the printed values, and neither opening nor writing failed.
C10_SuccessOnlyAfterWrite ==
    out.success =>
        /\ storage.k = "json"
        /\ StoredIds(variant, storage.d) = out.ids
        /\ ~PersistFailed

====
